---- MODULE Spec2Model ----
(***************************************************************************)
(* The Gesprov proxy of src/server.js as a state machine.  The file holds  *)
(* two versions of the server: lines 1-152 (no credentials check, routes   *)
(* auth and cliente) and lines 154-395 (credentials check, gesprovPost,    *)
(* route faturas).  cfg.version says which one is deployed.                *)
(*                                                                         *)
(* A route handler runs from one await to the next in one step, so there   *)
(* is one action per resumption point: the arrival of the inbound request, *)
(* the answer to a session probe, to the token POST and to the business    *)
(* POST.  Handlers of different requests interleave at these points.       *)
(***************************************************************************)
EXTENDS Integers, Sequences, FiniteSets, TLC

VARIABLES
  cfg,   \* process.env as destructured at start-up (lines 6-12, 162-169)
  up,    \* the Node process is running
  rq,    \* per inbound request: the handler's position and its locals
  ev     \* what the last handler step consumed and put on the wire

vars == <<cfg, up, rq, ev>>

\* The inbound requests that may be in progress together.
Reqs == {"r1", "r2"}

----------------------------------------------------------------------------
(* Values *)

\* An environment variable that is not set (undefined, or the empty string).
Unset == ""

\* GESPROV_URL as a sequence of pieces, so that the trailing slash is a piece.
UrlValues == {<< >>, <<"/">>, <<"http://h", "/">>}

Routes == {"auth", "cliente", "faturas"}

\* The x-api-key header of the inbound request: absent, the configured key,
\* another key.  The api_key header: absent, the configured key.
HeaderValues == {"", "k", "bad"}
LegacyValues == {"", "k"}

\* The value upstream puts after PHPSESSID= : who it was issued to and on
\* which probe.  by = "nobody" is the empty value, by = "env" the one that
\* GESPROV_PHPSESSID holds.
EmptyVal == [by |-> "nobody", n |-> 0]
EnvVal == [by |-> "env", n |-> 0]
SidVal(r, i) == [by |-> r, n |-> i]

\* A cookie string "name=val"; NoCookie is null.
NoCookie == [name |-> "", val |-> EmptyVal]
Cookie(name, val) == [name |-> name, val |-> val]

\* A bearer token: the string upstream sent, tagged with the token exchange
\* that returned it.  NoToken is undefined.
NoToken == [by |-> "nobody", s |-> ""]

\* cpf_cnpj of the request body: absent, or a string as a sequence of characters.
NoCpf == [has |-> FALSE, s |-> << >>]
Cpf(s) == [has |-> TRUE, s |-> s]
CpfInputs == {NoCpf, Cpf(<< >>), Cpf(<<"1", ".", "2">>)}

Digits == {"0", "1", "2", "3", "4", "5", "6", "7", "8", "9"}

\* Basic credentials: base64("id:secret"), kept as the pair it encodes.  A
\* variable that is not set is interpolated as the text "undefined".
NoBasic == [id |-> "", secret |-> ""]
Interp(v) == IF v = Unset THEN "undefined" ELSE v

\* base64 (lines 14-16, 171-173) applied to `${id}:${secret}` (lines 45, 204).
base64(id, secret) == [id |-> Interp(id), secret |-> Interp(secret)]

\* The body of an outbound POST.
NoBody == [kind |-> "none", cpf_cnpj |-> << >>]
EmptyObject == [kind |-> "{}", cpf_cnpj |-> << >>]

----------------------------------------------------------------------------
(* Upstream answers *)

HttpStatuses == {200, 404, 503}

\* r.ok of fetch: the status is in 200..299.
IsOk(status) == status \in 200..299

\* The set-cookie header of a probe response: absent, a cookie of another
\* name, PHPSESSID with an empty value, PHPSESSID with a value.
NoHeader == Cookie("", EmptyVal)
SetCookieValues(r, i) ==
  { NoHeader,
    Cookie("lang", SidVal(r, i)),
    Cookie("PHPSESSID", EmptyVal),
    Cookie("PHPSESSID", SidVal(r, i)) }

\* A token-endpoint body: json says whether JSON.parse succeeds; the other
\* fields are the members the code reads, "" when absent.
\* dat = data.access_token, top = access_token, acesso = token_acesso,
\* ttd = data.token_type, tt = token_type.
TokBody(json, erro, dat, top, acesso, ttd, tt) ==
  [json |-> json, erro |-> erro, dat |-> dat, top |-> top, acesso |-> acesso,
   ttd |-> ttd, tt |-> tt]
NonJsonBody == TokBody(FALSE, "", "", "", "", "", "")

\* The length of a response text: a short one, and one longer than the 1200
\* characters the routes cut diagnostics to.
ShortText == 40
LongText == 1300

\* A response text: what JSON.parse makes of it, and its length.
Text(body, len) == body @@ [len |-> len]

TokenBodies ==
  { Text(NonJsonBody, ShortText),
    Text(NonJsonBody, LongText),
    Text(TokBody(TRUE, "", "", "", "", "", ""), ShortText),
    Text(TokBody(TRUE, "usuario_invalido", "", "B", "", "", ""), ShortText),
    Text(TokBody(TRUE, "", "A", "B", "C", "T", ""), ShortText),
    Text(TokBody(TRUE, "", "", "", "C", "", ""), ShortText) }

\* A business-endpoint body: erro is the error marker, list the member that
\* carries the rows ("titulos", "faturas", "data" or "" for none).
BizBody(json, erro, list) == [json |-> json, erro |-> erro, list |-> list]
BizBodies ==
  { Text(BizBody(FALSE, "", ""), ShortText),
    Text(BizBody(FALSE, "", ""), LongText),
    Text(BizBody(TRUE, "usuario_invalido", ""), ShortText),
    Text(BizBody(TRUE, "sem_cadastro", ""), ShortText),
    Text(BizBody(TRUE, "", "titulos"), ShortText),
    Text(BizBody(TRUE, "", ""), LongText) }

----------------------------------------------------------------------------
(* requireKey, lines 18-26 and 175-183 *)

\* req.headers["x-api-key"] || req.headers["api_key"]
HeaderKey(hdr) == IF hdr.x # "" THEN hdr.x ELSE hdr.legacy

\* requireKey that lets every request through.
requireKeyOpen(c, hdr) == TRUE

requireKey(c, hdr) == c.key = Unset \/ HeaderKey(hdr) = c.key

----------------------------------------------------------------------------
(* Body validation and normalisation *)

\* A validation that accepts every body.
HasCpfAny(cpf) == TRUE

\* !cpf_cnpj is false (lines 111, 311, 349): the member is there and not "".
HasCpf(cpf) == cpf.has /\ cpf.s # << >>

\* replace without the g flag: only the first non-digit is removed.
OnlyDigitsOnce(s) ==
  LET bad == {i \in 1..Len(s) : s[i] \notin Digits}
  IN  IF bad = {} THEN s
      ELSE LET k == CHOOSE i \in bad : \A j \in bad : i <= j
           IN  SubSeq(s, 1, k - 1) \o SubSeq(s, k + 1, Len(s))

\* String(cpf_cnpj).replace(/\D/g, "") (lines 120, 317, 358).
RECURSIVE OnlyDigits(_)
OnlyDigits(s) ==
  IF s = << >> THEN << >>
  ELSE IF Head(s) \in Digits THEN <<Head(s)>> \o OnlyDigits(Tail(s))
  ELSE OnlyDigits(Tail(s))

----------------------------------------------------------------------------
(* openSession, lines 29-41 and 186-200 *)

\* (GESPROV_URL || "").replace(/\/$/, "") (lines 75, 237, 265).
StripSlash(u) ==
  IF Len(u) > 0 /\ u[Len(u)] = "/" THEN SubSeq(u, 1, Len(u) - 1) ELSE u

\* A candidate list with a fourth URL.
TriesFour(baseUrl) ==
  << baseUrl \o <<"/">>, baseUrl \o <<"/ges-api/">>, baseUrl \o <<"/ges-api/v1/">>,
     baseUrl \o <<"/ges-api/v2/">> >>

\* The candidate URLs, in the order they are tried.
Tries(baseUrl) ==
  << baseUrl \o <<"/">>, baseUrl \o <<"/ges-api/">>, baseUrl \o <<"/ges-api/v1/">> >>

\* A match on any cookie with a value.
MatchAnyCookie(h) == IF h.val # EmptyVal THEN h ELSE NoCookie

\* setCookie?.match(/PHPSESSID=[^;]+/i): the match, or null.
MatchSid(h) ==
  IF h.name = "PHPSESSID" /\ h.val # EmptyVal THEN h ELSE NoCookie

\* A loop that starts every GET at once and awaits them together.
ProbesAllAtOnce(i, n) == IF i = 0 THEN 1..n ELSE {}

\* The for loop with its await: after the answer to candidate i (0 before
\* the first), the candidates whose GET is started next.
ProbesToIssue(i, n) == IF i < n THEN {i + 1} ELSE {}

----------------------------------------------------------------------------
(* getToken, lines 43-72 and 202-234 *)

\* raw of a failure: nothing, the body text, or the parsed payload.
NoRaw == [form |-> "none", body |-> NonJsonBody]
RawText(body) == [form |-> "text", body |-> body]
RawPayload(body) == [form |-> "payload", body |-> body]

\* The number of characters raw carries.
RawLen(raw) == IF raw.form = "none" THEN 0 ELSE raw.body.len

\* payload ?? text (lines 69, 224, 231).
PayloadOrText(body) == IF body.json THEN RawPayload(body) ELSE RawText(body)

\* raw of a non-2xx answer: text in the first version (line 63), payload ??
\* text in the second (line 224).
TransportRaw(version, body) ==
  IF version = 1 THEN RawText(body) ELSE PayloadOrText(body)

\* payload?.erro is truthy.
HasErro(body) == body.json /\ body.erro # ""

\* The fallback chain in the opposite order.
AccessTokenLegacyFirst(body) ==
  IF ~body.json THEN ""
  ELSE IF body.acesso # "" THEN body.acesso
  ELSE IF body.top # "" THEN body.top
  ELSE body.dat

\* payload?.data?.access_token || payload?.access_token || payload?.token_acesso
AccessToken(body) ==
  IF ~body.json THEN ""
  ELSE IF body.dat # "" THEN body.dat
  ELSE IF body.top # "" THEN body.top
  ELSE body.acesso

\* payload?.data?.token_type || payload?.token_type || "Bearer"
TokenType(body) ==
  IF body.json /\ body.ttd # "" THEN body.ttd
  ELSE IF body.json /\ body.tt # "" THEN body.tt
  ELSE "Bearer"

TokFail(status, raw) ==
  [ok |-> FALSE, status |-> status, raw |-> raw, access_token |-> "", token_type |-> ""]

\* getToken with the error marker looked at before r.ok.
getTokenErroFirst(version, status, body) ==
  IF HasErro(body) THEN TokFail(401, RawPayload(body))
  ELSE IF ~IsOk(status) THEN TokFail(status, TransportRaw(version, body))
  ELSE IF AccessToken(body) = "" THEN TokFail(502, PayloadOrText(body))
  ELSE [ok |-> TRUE, status |-> 0, raw |-> NoRaw,
        access_token |-> AccessToken(body), token_type |-> TokenType(body)]

\* The classification of the token endpoint's answer (lines 63-71, 224-233).
getToken(version, status, body) ==
  IF ~IsOk(status) THEN TokFail(status, TransportRaw(version, body))
  ELSE IF HasErro(body) THEN TokFail(401, RawPayload(body))
  ELSE IF AccessToken(body) = "" THEN TokFail(502, PayloadOrText(body))
  ELSE [ok |-> TRUE, status |-> 0, raw |-> NoRaw,
        access_token |-> AccessToken(body), token_type |-> TokenType(body)]

----------------------------------------------------------------------------
(* authCycle, lines 74-92 and 236-261 *)

\* What authCycle returns; kind "none" stands for no result.
NoAuth ==
  [kind |-> "none", status |-> 0, error |-> "", raw |-> NoRaw,
   cookie |-> NoCookie, token |-> NoToken, token_type |-> ""]
AuthFail(status, error, raw) ==
  [NoAuth EXCEPT !.kind = "fail", !.status = status, !.error = error, !.raw = raw]
AuthOk(cookie, token, token_type) ==
  [NoAuth EXCEPT !.kind = "ok", !.cookie = cookie, !.token = token,
                 !.token_type = token_type]

\* The configuration checks (lines 75-76, 237-245): the failure they return,
\* or NoAuth when they pass.  The first version does not look at the
\* credentials.
ConfigError(c) ==
  IF StripSlash(c.url) = << >> THEN AuthFail(500, "GESPROV_URL not set", NoRaw)
  ELSE IF c.version = 2 /\ (c.id = Unset \/ c.secret = Unset)
    THEN AuthFail(500, "GESPROV_CLIENT_ID / GESPROV_CLIENT_SECRET not set", NoRaw)
  ELSE NoAuth

\* The template without its guard: a cookie also when the variable is not set.
FixedCookieUnguarded(c) == Cookie("PHPSESSID", EnvVal)

\* GESPROV_PHPSESSID ? `PHPSESSID=${GESPROV_PHPSESSID}` : null (lines 81, 250).
FixedCookie(c) ==
  IF c.fixed # Unset THEN Cookie("PHPSESSID", EnvVal) ELSE NoCookie

\* fixed || sid: the configured cookie first.
PickCookieFixedFirst(sid, fixed) == IF fixed # NoCookie THEN fixed ELSE sid

\* sid || fixed (line 251; lines 79-88 in the first version).
PickCookie(sid, fixed) == IF sid # NoCookie THEN sid ELSE fixed

\* cookie as a variable of the module, shared by the handlers: after the
\* await it holds what another request has put there.
CookieShared(q, r) ==
  LET others == {o \in DOMAIN q : o # r /\ q[o].cookie # NoCookie}
  IN  IF others = {} THEN q[r].cookie ELSE q[CHOOSE o \in others : TRUE].cookie

\* The cookie authCycle returns after the await of getToken (lines 85, 91,
\* 260): its own local.
CookieAfterToken(q, r) == q[r].cookie

----------------------------------------------------------------------------
(* Outbound calls *)

\* An outbound call: a probe GET, the token POST or a business POST.
Call(kind, n, url, cookie, token, basic, body) ==
  [kind |-> kind, n |-> n, url |-> url, cookie |-> cookie, token |-> token,
   basic |-> basic, body |-> body]
NoCall == Call("none", 0, << >>, NoCookie, NoToken, NoBasic, NoBody)

\* fetch(url, { method: "GET" }) on candidate i (lines 34, 191).
ProbeCall(c, i) ==
  Call("probe", i, Tries(StripSlash(c.url))[i], NoCookie, NoToken, NoBasic, NoBody)

\* The POST of getToken (lines 44-57, 203-216).
TokenCall(c, cookie) ==
  Call("token", 0, StripSlash(c.url) \o <<"/ges-api/v1/token">>, cookie, NoToken,
       base64(c.id, c.secret), EmptyObject)

Endpoint(route) ==
  IF route = "cliente" THEN "/ges-api/v1/identificacao-cliente" ELSE "/ges-api/v1/faturas"

\* The POST of gesprovPost (lines 264-281; lines 116-134 in the first
\* version) with the bodyObj of the route (lines 119-123, 316-320, 357-361).
gesprovPost(c, route, auth, cpf) ==
  Call("business", 0, StripSlash(c.url) \o <<Endpoint(route)>>, auth.cookie,
       auth.token, NoBasic, [kind |-> route, cpf_cnpj |-> OnlyDigits(cpf.s)])

----------------------------------------------------------------------------
(* Responses of the proxy *)

\* A response: its status and the shape of its body.  json tells whether the
\* body is JSON, errField which of the fields error and erro it has, raw is
\* the raw of an auth failure, rawLen the number of characters of upstream
\* text or payload in its raw or details field, payload the upstream payload
\* the body is or is made from.
NoPayload == BizBody(FALSE, "", "")
NoResp ==
  [status |-> 0, shape |-> "none", cookie |-> NoCookie, token |-> NoToken,
   token_type |-> "", json |-> FALSE, errField |-> "", raw |-> NoRaw,
   rawLen |-> 0, payload |-> NoPayload]
Resp(status, shape) ==
  [NoResp EXCEPT !.status = status, !.shape = shape, !.json = TRUE]

\* res.status(status).json({ error: ..., ... }).
ErrorResp(status, shape, rawLen) ==
  [Resp(status, shape) EXCEPT !.errField = "error", !.rawLen = rawLen]

\* res.status(status).json(payload), the payload having erro (lines 141-142,
\* 330-331, 373-374).
ErroResp(status, body) ==
  [Resp(status, "erroPayload") EXCEPT !.errField = "erro", !.payload = body]

\* The response of the error handler of Express: not JSON.
ErrorHandlerResp == [Resp(500, "errorHandler") EXCEPT !.json = FALSE]

\* The cut of the upstream text: slice(0, 800) in the first version (line
\* 146), slice(0, 1200) in the second (lines 335, 380).
MaxRawV1 == 800
MaxRaw == 1200
Slice(len, max) == IF len > max THEN max ELSE len

\* A route that answers every auth failure with 500.
StatusAlways500(status) == 500

\* auth.status || 500 (lines 101, 114, 301, 314, 352).
StatusOr500(status) == IF status # 0 THEN status ELSE 500

\* payload?.erro is truthy, for a business body.
HasErroB(body) == body.json /\ body.erro # ""

\* Every error marker answered 400.
ErroStatusAlways400(body) == 400

\* payload.erro === "usuario_invalido" ? 401 : 400 (lines 141, 330, 373).
ErroStatus(body) == IF body.erro = "usuario_invalido" THEN 401 ELSE 400

\* The answer of /gesprov/cliente to the business call (lines 140-149, 329-338).
clienteResult(version, status, body) ==
  IF HasErroB(body) THEN ErroResp(ErroStatus(body), body)
  ELSE IF ~IsOk(status)
    THEN ErrorResp(502, "clienteTransport",
                   Slice(body.len, IF version = 1 THEN MaxRawV1 ELSE MaxRaw))
  ELSE [Resp(200, "clientePayload") EXCEPT !.payload = body]

\* /gesprov/faturas answering a non-2xx upstream status as /gesprov/cliente
\* does, with 502.
faturasResultAs502(status, body) ==
  IF HasErroB(body) THEN ErroResp(ErroStatus(body), body)
  ELSE IF ~IsOk(status)
    THEN ErrorResp(502, "faturasTransport",
                   IF body.json THEN body.len ELSE Slice(body.len, MaxRaw))
  ELSE [Resp(200, "faturasList") EXCEPT !.payload = body]

\* The answer of /gesprov/faturas to the business call (lines 372-388).
faturasResult(status, body) ==
  IF HasErroB(body) THEN ErroResp(ErroStatus(body), body)
  ELSE IF ~IsOk(status)
    THEN ErrorResp(status, "faturasTransport",
                   IF body.json THEN body.len ELSE Slice(body.len, MaxRaw))
  ELSE [Resp(200, "faturasList") EXCEPT !.payload = body]

----------------------------------------------------------------------------
(* The handlers, from one await to the next *)

\* A request no handler has been started for.  cookie is the local of
\* authCycle (lines 78-88, 251); nProbe, nToken and nBiz count the outbound
\* calls started so far, inflight holds those not yet answered, authd is
\* the kind of result authCycle returned and nResp counts the responses sent.
Idle ==
  [pc |-> "idle", route |-> "", cpf |-> NoCpf, cookie |-> NoCookie,
   nProbe |-> 0, nToken |-> 0, nBiz |-> 0, inflight |-> {}, authd |-> "none",
   nResp |-> 0]

Live == {"openSession", "getToken", "gesprovPost"}

\* The handler has returned: the request is over, what was done for it remains.
Ended(q, pc) == [q EXCEPT !.pc = pc, !.route = "", !.cpf = NoCpf]

\* What a handler step does to its request: the new locals, the result of
\* authCycle if it returned in this step, the calls started, the response sent.
Step(q, auth, calls, resp) == [q |-> q, auth |-> auth, calls |-> calls, resp |-> resp]

\* res.status(...).json(...) followed by return.
Respond(q, auth, resp) ==
  Step(Ended([q EXCEPT !.authd = IF auth.kind = "none" THEN @ ELSE auth.kind,
                       !.nResp = @ + 1], "done"),
       auth, {}, resp)

\* A route that does not look at auth.ok.
NotOkIgnored(auth) == FALSE

\* !auth.ok (lines 101, 114, 301, 314, 352).
NotOk(auth) == auth.kind # "ok"

\* The route after authCycle has returned (lines 101-134, 301-327, 352-370).
AfterAuth(c, q, auth) ==
  IF NotOk(auth)
    THEN Respond(q, auth,
                 [ErrorResp(StatusOr500(auth.status), "authFailure", RawLen(auth.raw))
                    EXCEPT !.raw = auth.raw])
  ELSE IF q.route = "auth"
    THEN Respond(q, auth, [Resp(200, "authOk") EXCEPT !.cookie = auth.cookie,
                             !.token = auth.token, !.token_type = auth.token_type])
  ELSE LET call == gesprovPost(c, q.route, auth, q.cpf)
       IN  Step([q EXCEPT !.pc = "gesprovPost",
                          !.inflight = @ \cup {call}, !.nBiz = @ + 1,
                          !.authd = auth.kind],
                auth, {call}, NoResp)

\* authCycle after openSession has returned sid (lines 79-88, 250-257).
AfterSession(c, q, sid) ==
  LET cookie == PickCookie(sid, FixedCookie(c))
  IN  IF cookie = NoCookie
        THEN AfterAuth(c, q, AuthFail(502, "Could not obtain PHPSESSID (session required)", NoRaw))
      ELSE LET call == TokenCall(c, cookie)
           IN  Step([q EXCEPT !.pc = "getToken", !.cookie = cookie,
                              !.inflight = @ \cup {call}, !.nToken = @ + 1],
                    NoAuth, {call}, NoResp)

\* openSession's loop after the answer to candidate i, which gave match m.
AfterProbe(c, q, i, m) ==
  LET next == ProbesToIssue(i, Len(Tries(StripSlash(c.url))))
      calls == {ProbeCall(c, j) : j \in next}
  IN  IF m # NoCookie THEN AfterSession(c, q, m)
      ELSE IF next # {}
        THEN Step([q EXCEPT !.pc = "openSession", !.inflight = @ \cup calls,
                            !.nProbe = @ + Cardinality(calls)],
                  NoAuth, calls, NoResp)
      ELSE AfterSession(c, q, NoCookie)

\* authCycle from its start to the first await (lines 75-78, 237-247).
StartAuth(c, q) ==
  IF ConfigError(c).kind = "fail" THEN AfterAuth(c, q, ConfigError(c))
  ELSE AfterProbe(c, q, 0, NoCookie)

\* requireKey answering 401 without the handler returning: the route goes on
\* after the response.
StartRouteNoReturn(c, q, hdr) ==
  IF ~requireKey(c, hdr)
    THEN [StartAuth(c, q) EXCEPT !.resp = ErrorResp(401, "unauthorized", 0),
                                 !.q.nResp = @ + 1]
  ELSE IF q.route # "auth" /\ ~HasCpf(q.cpf)
    THEN Respond(q, NoAuth, ErrorResp(400, "cpfRequired", 0))
  ELSE StartAuth(c, q)

\* A route handler from its start to the first await (lines 98-113,
\* 298-313, 345-351).
StartRoute(c, q, hdr) ==
  IF ~requireKey(c, hdr) THEN Respond(q, NoAuth, ErrorResp(401, "unauthorized", 0))
  ELSE IF q.route # "auth" /\ ~HasCpf(q.cpf)
    THEN Respond(q, NoAuth, ErrorResp(400, "cpfRequired", 0))
  ELSE StartAuth(c, q)

----------------------------------------------------------------------------
(* State machine *)

\* What a handler step consumed: the inbound request, or the outcome of one
\* of its outbound calls.
NoInput ==
  [kind |-> "none", route |-> "", x |-> "", legacy |-> "", cpf |-> NoCpf,
   n |-> 0, threw |-> FALSE, status |-> 0, setCookie |-> NoHeader,
   tbody |-> NonJsonBody, bbody |-> BizBody(FALSE, "", "")]

\* What getToken returned; ok FALSE with status 0 stands for no result.
NoTok == TokFail(0, NoRaw)

NoEvent ==
  [req |-> "", in |-> NoInput, tok |-> NoTok, auth |-> NoAuth, calls |-> {},
   resp |-> NoResp]

Configs ==
  [version : {1, 2}, url : UrlValues, id : {Unset, "id"}, secret : {Unset, "sec"},
   key : {Unset, "k"}, fixed : {Unset, "F"}]

Init ==
  /\ cfg \in Configs
  /\ up = TRUE
  /\ rq = [r \in Reqs |-> Idle]
  /\ ev = NoEvent

\* The handler of r takes the step out on input in.
Commit(r, in, out) ==
  /\ rq' = [rq EXCEPT ![r] = out.q]
  /\ ev' = [req |-> r, in |-> in,
            tok |-> IF in.kind = "token" /\ ~in.threw
                      THEN getToken(cfg.version, in.status, in.tbody) ELSE NoTok,
            auth |-> out.auth, calls |-> out.calls, resp |-> out.resp]
  /\ UNCHANGED <<cfg, up>>

\* A handler without try and catch.
NeverInsideTry(route) == FALSE

\* The awaits of the route are inside try { } catch (lines 347-392): those
\* of /gesprov/faturas only.
InsideTry(route) == route = "faturas"

\* An exception leaves the handler of r, whose locals are q.  /gesprov/faturas
\* catches it (lines 389-392).  The other routes do not: the promise of the
\* async handler rejects, and either Express passes it to its error handler,
\* which answers 500 (Express 5), or nothing handles it and Node exits
\* (Express 4), leaving every request in progress without an answer.
Thrown(r, in, q, how) ==
  IF InsideTry(q.route)
    THEN how = "caught" /\ Commit(r, in, Respond(q, NoAuth, ErrorResp(500, "faturasCaught", 0)))
  ELSE \/ how = "errorHandler"
          /\ Commit(r, in, Respond(q, NoAuth, ErrorHandlerResp))
       \/ how = "exit"
          /\ up' = FALSE
          /\ rq' = [x \in Reqs |->
                      IF x = r THEN [Ended(q, "hung") EXCEPT !.inflight = {}]
                      ELSE IF rq[x].pc \in Live
                        THEN [Ended(rq[x], "hung") EXCEPT !.inflight = {}]
                      ELSE rq[x]]
          /\ ev' = [req |-> r, in |-> in, tok |-> NoTok, auth |-> NoAuth,
                    calls |-> {}, resp |-> NoResp]
          /\ UNCHANGED cfg

\* An inbound POST arrives (lines 97, 107, 297, 307, 344).  The first version
\* has no /gesprov/faturas; /gesprov/auth does not read the body.
Receive(r, route, x, legacy, cpf) ==
  /\ up
  /\ rq[r].pc = "idle"
  /\ cfg.version = 1 => route # "faturas"
  /\ route = "auth" => cpf = NoCpf
  /\ Commit(r,
            [NoInput EXCEPT !.kind = "request", !.route = route, !.x = x,
                            !.legacy = legacy, !.cpf = cpf],
            StartRoute(cfg, [Idle EXCEPT !.route = route, !.cpf = cpf],
                       [x |-> x, legacy |-> legacy]))

\* A probe GET is answered with set-cookie header h (lines 34-37, 191-194).
ProbeResponse(r, call, h) ==
  /\ up
  /\ rq[r].pc = "openSession"
  /\ call \in rq[r].inflight /\ call.kind = "probe"
  /\ Commit(r,
            [NoInput EXCEPT !.kind = "probe", !.route = rq[r].route, !.n = call.n,
                            !.setCookie = h],
            AfterProbe(cfg, [rq[r] EXCEPT !.inflight = @ \ {call}], call.n, MatchSid(h)))

\* A probe GET fails on the network: catch {} (lines 38, 195-197).
ProbeFails(r, call) ==
  /\ up
  /\ rq[r].pc = "openSession"
  /\ call \in rq[r].inflight /\ call.kind = "probe"
  /\ Commit(r,
            [NoInput EXCEPT !.kind = "probe", !.route = rq[r].route, !.n = call.n,
                            !.threw = TRUE],
            AfterProbe(cfg, [rq[r] EXCEPT !.inflight = @ \ {call}], call.n, NoCookie))

\* authCycle after getToken has returned tok (lines 84-91, 258-260).  The
\* first version returns no token_type.
AfterToken(c, q, r, tok) ==
  IF ~tok.ok THEN AuthFail(tok.status, "Token failed", tok.raw)
  ELSE AuthOk(CookieAfterToken(q, r), [by |-> r, s |-> tok.access_token],
              IF c.version = 1 THEN "" ELSE tok.token_type)

\* The token POST is answered (lines 59-71, 218-233).
TokenResponse(r, call, status, body) ==
  /\ up
  /\ rq[r].pc = "getToken"
  /\ call \in rq[r].inflight /\ call.kind = "token"
  /\ Commit(r,
            [NoInput EXCEPT !.kind = "token", !.route = rq[r].route, !.n = call.n,
                            !.status = status, !.tbody = body],
            AfterAuth(cfg, [rq[r] EXCEPT !.inflight = @ \ {call}],
                      AfterToken(cfg, rq, r, getToken(cfg.version, status, body))))

\* The token POST fails on the network: fetch throws (lines 47, 206).
TokenFails(r, call, how) ==
  /\ up
  /\ rq[r].pc = "getToken"
  /\ call \in rq[r].inflight /\ call.kind = "token"
  /\ Thrown(r, [NoInput EXCEPT !.kind = "token", !.route = rq[r].route, !.n = call.n,
                           !.threw = TRUE],
            [rq[r] EXCEPT !.inflight = @ \ {call}], how)

\* The business POST is answered (lines 136-149, 283-289 and 329-338, 372-388).
BusinessResponse(r, call, status, body) ==
  /\ up
  /\ rq[r].pc = "gesprovPost"
  /\ call \in rq[r].inflight /\ call.kind = "business"
  /\ Commit(r,
            [NoInput EXCEPT !.kind = "business", !.route = rq[r].route,
                            !.n = call.n, !.status = status, !.bbody = body],
            Respond([rq[r] EXCEPT !.inflight = @ \ {call}], NoAuth,
                    IF rq[r].route = "cliente"
                      THEN clienteResult(cfg.version, status, body)
                    ELSE faturasResult(status, body)))

\* The business POST fails on the network: fetch throws (lines 125, 271).
BusinessFails(r, call, how) ==
  /\ up
  /\ rq[r].pc = "gesprovPost"
  /\ call \in rq[r].inflight /\ call.kind = "business"
  /\ Thrown(r, [NoInput EXCEPT !.kind = "business", !.route = rq[r].route,
                           !.n = call.n, !.threw = TRUE],
            [rq[r] EXCEPT !.inflight = @ \ {call}], how)

ThrowOutcomes == {"caught", "errorHandler", "exit"}

Next ==
  \/ \E r \in Reqs, route \in Routes, x \in HeaderValues, legacy \in LegacyValues,
        cpf \in CpfInputs :
       Receive(r, route, x, legacy, cpf)
  \/ \E r \in Reqs : \E call \in rq[r].inflight :
       \E h \in SetCookieValues(r, call.n) : ProbeResponse(r, call, h)
  \/ \E r \in Reqs : \E call \in rq[r].inflight : ProbeFails(r, call)
  \/ \E r \in Reqs : \E call \in rq[r].inflight :
       \E status \in HttpStatuses, body \in TokenBodies :
         TokenResponse(r, call, status, body)
  \/ \E r \in Reqs : \E call \in rq[r].inflight :
       \E how \in ThrowOutcomes : TokenFails(r, call, how)
  \/ \E r \in Reqs : \E call \in rq[r].inflight :
       \E status \in HttpStatuses, body \in BizBodies :
         BusinessResponse(r, call, status, body)
  \/ \E r \in Reqs : \E call \in rq[r].inflight :
       \E how \in ThrowOutcomes : BusinessFails(r, call, how)

Spec == Init /\ [][Next]_vars

\* getToken alone, on every combination of the fields it looks at.
AllTokenBodies ==
  {Text(NonJsonBody, ShortText)} \cup
  { Text(TokBody(TRUE, erro, dat, top, acesso, ttd, tt), ShortText) :
      erro \in {"", "usuario_invalido"}, dat \in {"", "A"}, top \in {"", "B"},
      acesso \in {"", "C"}, ttd \in {"", "T"}, tt \in {"", "U"} }

\* getToken is called and the token endpoint answers (lines 43-72, 202-234).
CallGetToken(status, body) ==
  /\ ev' = [NoEvent EXCEPT
              !.in = [NoInput EXCEPT !.kind = "token", !.status = status,
                                     !.tbody = body],
              !.tok = getToken(cfg.version, status, body)]
  /\ UNCHANGED <<cfg, up, rq>>

NextToken ==
  \E status \in HttpStatuses, body \in AllTokenBodies : CallGetToken(status, body)

SpecToken == Init /\ [][NextToken]_vars

\* The body of the business POST alone, on every cpf_cnpj of up to MaxCpfLen
\* characters over digits and punctuation.
MaxCpfLen == 3
CpfAlphabet == {"0", "1", "9", ".", "-"}
CpfStrings == UNION {[1..n -> CpfAlphabet] : n \in 0..MaxCpfLen}

\* A business route accepts cpf_cnpj s and, its auth cycle having succeeded
\* with the probed cookie and a token, builds and sends the business POST
\* (lines 110-134, 310-327, 348-370).
BuildBody(r, route, s) ==
  LET cookie == Cookie("PHPSESSID", SidVal(r, 1))
      q == [Idle EXCEPT !.route = route, !.cpf = Cpf(s), !.cookie = cookie,
                        !.nProbe = 1, !.nToken = 1]
  IN  /\ rq[r].pc = "idle"
      /\ cfg.version = 1 => route # "faturas"
      /\ HasCpf(Cpf(s))
      /\ Commit(r,
                [NoInput EXCEPT !.kind = "request", !.route = route, !.cpf = Cpf(s)],
                AfterAuth(cfg, q, AuthOk(cookie, [by |-> r, s |-> "A"], "Bearer")))

InitCpf == Init /\ ConfigError(cfg).kind = "none"

NextCpf ==
  \E route \in {"cliente", "faturas"}, s \in CpfStrings : BuildBody("r1", route, s)

SpecCpf == InitCpf /\ [][NextCpf]_vars

----------------------------------------------------------------------------
(* Properties *)

\* The calls of a kind started by the last step, and the request that took it.
Started(kind) == {c \in ev.calls : c.kind = kind}
InFlight(r, kind) == {c \in rq[r].inflight : c.kind = kind}
KeyConfigured == cfg.key # Unset
Answered == ev.resp.shape # "none"

\* The last step took in an answer to a probe that carries no PHPSESSID
\* cookie, or the probe failed.
ProbeGaveNothing ==
  /\ ev.in.kind = "probe"
  /\ \/ ev.in.threw
     \/ ev.in.setCookie.name # "PHPSESSID"
     \/ ev.in.setCookie.val = EmptyVal

\* The last step took in an answer to a probe that carries a PHPSESSID cookie.
ProbeGaveCookie ==
  /\ ev.in.kind = "probe" /\ ~ev.in.threw
  /\ ev.in.setCookie.name = "PHPSESSID" /\ ev.in.setCookie.val # EmptyVal

\* C1: a business POST is started only in the step in which the auth cycle of
\* the same request has returned success, with a cookie and a token, which
\* the POST carries; a request whose auth cycle has failed is over and has
\* started no business POST.
C1_DispatchOnlyWhenAuthenticated ==
  /\ \A c \in Started("business") :
       /\ ev.auth.kind = "ok"
       /\ ev.auth.cookie # NoCookie /\ ev.auth.token # NoToken /\ ev.auth.token.s # ""
       /\ c.cookie = ev.auth.cookie /\ c.token = ev.auth.token
  /\ \A r \in Reqs :
       /\ (rq[r].nBiz > 0 \/ InFlight(r, "business") # {}) => rq[r].authd = "ok"
       /\ rq[r].authd = "fail" => rq[r].pc = "done" /\ rq[r].nBiz = 0
  /\ ev.auth.kind = "fail" => ev.calls = {}

\* C1 witness: the auth cycle succeeds and the business POST goes out.
C1_Witness == Started("business") # {} /\ ev.auth.kind = "ok"

\* C2: with the base URL, the client id or the client secret missing,
\* authCycle returns a failure of status 500 and no outbound call is made.
C2_MissingConfigFailsBeforeAnyCall ==
  (cfg.url = << >> \/ cfg.id = Unset \/ cfg.secret = Unset) =>
    /\ ev.calls = {}
    /\ \A r \in Reqs :
         rq[r].inflight = {} /\ rq[r].nProbe = 0 /\ rq[r].nToken = 0 /\ rq[r].nBiz = 0
    /\ ev.auth.kind # "none" => ev.auth.kind = "fail" /\ ev.auth.status = 500

\* C3 as stated: with a proxy key configured, a request whose x-api-key header
\* is missing or differs from the key is answered 401 with no upstream call.
C3_AsStated ==
  (KeyConfigured /\ ev.in.kind = "request" /\ ev.in.x # cfg.key) =>
    ev.resp.status = 401 /\ ev.calls = {}

\* C3: with a proxy key configured, a request whose x-api-key header differs
\* from the key, or is missing while the api_key header is missing or differs
\* from the key, is answered 401 in the step that receives it, and no
\* upstream call is made for it.
C3_BadKeyRejected ==
  (/\ KeyConfigured
   /\ ev.in.kind = "request"
   /\ \/ ev.in.x # "" /\ ev.in.x # cfg.key
      \/ ev.in.x = "" /\ ev.in.legacy # cfg.key) =>
    /\ ev.resp.status = 401
    /\ ev.calls = {}
    /\ rq[ev.req].pc = "done" /\ rq[ev.req].inflight = {}
    /\ rq[ev.req].nProbe = 0 /\ rq[ev.req].nToken = 0 /\ rq[ev.req].nBiz = 0

\* C3 witness: a key is configured and a request with another key gets 401.
C3_Witness ==
  /\ KeyConfigured /\ ev.in.kind = "request" /\ ev.in.x = "bad"
  /\ ev.resp.status = 401

\* C4 as stated: a request to a business route whose body lacks cpf_cnpj is
\* answered 400 with no network call.
C4_AsStated ==
  (ev.in.kind = "request" /\ ev.in.route \in {"cliente", "faturas"} /\ ~ev.in.cpf.has) =>
    ev.resp.status = 400 /\ ev.calls = {}

\* C4: a request to a business route whose body lacks cpf_cnpj is answered
\* in the step that receives it with no network call made for it: 400 when it
\* passes the key check, 401 when it does not.
C4_MissingCpfRejected ==
  (ev.in.kind = "request" /\ ev.in.route \in {"cliente", "faturas"} /\ ~ev.in.cpf.has) =>
    /\ ev.resp.status =
         IF KeyConfigured /\ (IF ev.in.x # "" THEN ev.in.x ELSE ev.in.legacy) # cfg.key
           THEN 401 ELSE 400
    /\ ev.calls = {}
    /\ rq[ev.req].pc = "done" /\ rq[ev.req].inflight = {}
    /\ rq[ev.req].nProbe = 0 /\ rq[ev.req].nToken = 0 /\ rq[ev.req].nBiz = 0

\* C4 witness: a request without cpf_cnpj passes the key check and gets 400.
C4_Witness ==
  /\ ev.in.kind = "request" /\ ev.in.route = "faturas" /\ ~ev.in.cpf.has
  /\ KeyConfigured /\ ev.in.x = cfg.key
  /\ ev.resp.status = 400

\* C5: when the third probe too fails or yields no PHPSESSID cookie and no
\* fixed cookie is configured, authCycle returns a failure of status 502 and
\* the request ends without a token POST.
C5_NoSessionNoTokenCall ==
  (ProbeGaveNothing /\ ev.in.n = 3 /\ cfg.fixed = Unset) =>
    /\ ev.auth.kind = "fail" /\ ev.auth.status = 502
    /\ ev.resp.status = 502
    /\ ev.calls = {}
    /\ rq[ev.req].pc = "done" /\ rq[ev.req].nToken = 0 /\ rq[ev.req].inflight = {}

\* C5 witness: three probes were made, the last one failed, no fixed cookie.
C5_Witness ==
  /\ ProbeGaveNothing /\ ev.in.threw /\ ev.in.n = 3 /\ cfg.fixed = Unset
  /\ rq[ev.req].nProbe = 3 /\ ev.resp.status = 502

\* The cookie of request r is one upstream gave r on its last probe, or it
\* is the fixed one, taken after the third probe.
CookieIsProbedOrLastResort(r) ==
  \/ rq[r].cookie = NoCookie
  \/ /\ rq[r].cookie.name = "PHPSESSID"
     /\ rq[r].cookie.val = SidVal(r, rq[r].nProbe)
  \/ /\ rq[r].cookie = Cookie("PHPSESSID", EnvVal)
     /\ cfg.fixed # Unset /\ rq[r].nProbe = 3

\* C6: when a probe yields a cookie, the token POST started on that answer
\* carries that cookie, whether or not a fixed cookie is configured; the
\* fixed cookie goes out only on the answer to the third probe, when that
\* too gave nothing; and the business POST and the auth result carry the
\* cookie of the token POST.
C6_FixedCookieIsLastResort ==
  /\ \A c \in Started("token") :
       /\ ProbeGaveCookie => c.cookie = ev.in.setCookie
       /\ c.cookie.val = EnvVal => ProbeGaveNothing /\ ev.in.n = 3
       /\ ProbeGaveCookie \/ ProbeGaveNothing
  /\ \A r \in Reqs :
       /\ CookieIsProbedOrLastResort(r)
       /\ \A c \in rq[r].inflight :
            c.kind \in {"token", "business"} => c.cookie = rq[r].cookie
  /\ ev.auth.kind = "ok" => ev.auth.cookie = rq[ev.req].cookie
  /\ ev.resp.shape = "authOk" => ev.resp.cookie = rq[ev.req].cookie

\* C6 witness: a fixed cookie is configured, and the business POST goes out
\* with the cookie the second probe gave.
C6_Witness ==
  /\ cfg.fixed # Unset
  /\ \E c \in Started("business") : c.cookie.val = SidVal(ev.req, 2)

\* C7 as stated: a token answer whose body carries an error marker gives the
\* failure status 401, whatever the HTTP status of the answer.
C7_AsStated ==
  (ev.in.kind = "token" /\ ~ev.in.threw /\ ev.in.tbody.json /\ ev.in.tbody.erro # "") =>
    ev.auth.kind = "fail" /\ ev.auth.status = 401

\* C7: a token answer whose body carries an error marker gives a failure, of
\* status 401 when the HTTP status of the answer is 2xx and of that HTTP
\* status otherwise; the route answers with the same status.
C7_ErroMarkerStatus ==
  (ev.in.kind = "token" /\ ~ev.in.threw /\ ev.in.tbody.json /\ ev.in.tbody.erro # "") =>
    /\ ev.auth.kind = "fail"
    /\ ev.auth.status = IF ev.in.status \in 200..299 THEN 401 ELSE ev.in.status
    /\ ev.resp.status = ev.auth.status

\* C7 witness: the token endpoint answers 200 with an error marker.
C7_Witness ==
  /\ ev.in.kind = "token" /\ ev.in.status = 200 /\ ev.in.tbody.erro = "usuario_invalido"
  /\ ev.auth.status = 401

\* C8: the outbound calls of a request go one at a time: probe 1 on the
\* arrival of the request, probe n+1 on the answer or failure of probe n, the
\* token POST on the answer that ends the probing, the business POST on a 2xx
\* token answer that authCycle turned into success; a request never has two
\* calls in flight.
C8_OneCallAtATime ==
  /\ Cardinality(ev.calls) <= 1
  /\ \A r \in Reqs : Cardinality(rq[r].inflight) <= 1
  /\ \A c \in Started("probe") :
       \/ c.n = 1 /\ ev.in.kind = "request"
       \/ c.n > 1 /\ ProbeGaveNothing /\ ev.in.n = c.n - 1
  /\ Started("token") # {} => (ProbeGaveCookie \/ (ProbeGaveNothing /\ ev.in.n = 3))
  /\ Started("business") # {} =>
       /\ ev.in.kind = "token" /\ ~ev.in.threw /\ ev.in.status \in 200..299
       /\ ev.auth.kind = "ok"
  /\ \A r \in Reqs :
       /\ rq[r].pc = "openSession" => InFlight(r, "probe") = rq[r].inflight
       /\ rq[r].pc = "getToken" => InFlight(r, "token") = rq[r].inflight
       /\ rq[r].pc = "gesprovPost" => InFlight(r, "business") = rq[r].inflight
       /\ rq[r].pc \in Live => rq[r].inflight # {}

\* C8 witness: a business POST starts after three probes and the token POST.
C8_Witness ==
  /\ Started("business") # {}
  /\ rq[ev.req].nProbe = 3 /\ rq[ev.req].nToken = 1

\* C9: whatever the interleaving, the token POST and the business POST of a
\* request carry the cookie of that request's own auth cycle, the business
\* POST carries the token its own token exchange returned, and the auth
\* result holds that cookie and that token.
C9_NoCrossRequestCredentials ==
  /\ \A r \in Reqs : \A c \in rq[r].inflight :
       /\ c.kind \in {"token", "business"} =>
            c.cookie = rq[r].cookie /\ c.cookie.val.by \in {r, "env"}
       /\ c.kind = "business" =>
            c.token.by = r /\ rq[r].nToken = 1 /\ rq[r].nProbe >= 1
  /\ ev.auth.kind = "ok" =>
       /\ ev.auth.cookie = rq[ev.req].cookie
       /\ ev.auth.cookie.val.by \in {ev.req, "env"}
       /\ ev.auth.token.by = ev.req
       /\ ev.auth.token.s \in
            {ev.in.tbody.dat, ev.in.tbody.top, ev.in.tbody.acesso} \ {""}
       /\ \A c \in Started("business") :
            c.cookie = ev.auth.cookie /\ c.token = ev.auth.token

\* C9 witness: the business POSTs of two requests are in flight together,
\* each with the cookie upstream gave to its own request.
C9_Witness ==
  \A r \in Reqs : \E c \in InFlight(r, "business") : c.cookie.val.by = r

\* C10: a request starts at most three probes, one per candidate in order,
\* at most one token POST and at most one business POST; the step that takes
\* in the answer or failure of the token POST starts no probe and no token
\* POST, the step that takes in that of the business POST starts no call, and
\* no step that answers the request starts a call.
C10_NothingRetried ==
  /\ \A r \in Reqs : rq[r].nProbe <= 3 /\ rq[r].nToken <= 1 /\ rq[r].nBiz <= 1
  /\ \A c \in Started("probe") : c.n = rq[ev.req].nProbe
  /\ ev.in.kind = "token" => Started("probe") = {} /\ Started("token") = {}
  /\ ev.in.kind = "business" => ev.calls = {}
  /\ Answered => ev.calls = {}
  /\ (ev.in.kind \in {"token", "business"} /\ (ev.in.threw \/ ev.in.status \notin 200..299)) =>
       ev.calls = {} /\ rq[ev.req].pc \notin Live

\* C10 witness: after three probes and the token POST, the business POST is
\* answered 503 and the request is answered without another call.
C10_Witness ==
  /\ ev.in.kind = "business" /\ ev.in.status = 503 /\ Answered
  /\ rq[ev.req].nProbe = 3 /\ rq[ev.req].nToken = 1 /\ rq[ev.req].nBiz = 1

\* The URL of candidate n of openSession for the base URL the model uses.
CandidateUrl(n) ==
  IF n = 1 THEN <<"http://h", "/">>
  ELSE IF n = 2 THEN <<"http://h", "/ges-api/">>
  ELSE <<"http://h", "/ges-api/v1/">>

\* The last step ended openSession without a cookie: authCycle went on with
\* the configured cookie, or failed for want of one.
SessionGaveNothing ==
  \/ \E c \in Started("token") : c.cookie = Cookie("PHPSESSID", EnvVal)
  \/ ev.auth.kind = "fail" /\ ev.auth.error = "Could not obtain PHPSESSID (session required)"

\* C11: openSession probes the root, /ges-api/ and /ges-api/v1/ in this
\* order, the first when the auth cycle starts and each next one only on the
\* answer to the one before; a probe that fails or carries no PHPSESSID
\* cookie makes it go on to the next and is never an error; a probe that
\* carries one ends it with that cookie, which the token POST gets, and no
\* later candidate is probed; it ends without a cookie exactly on the third
\* probe giving nothing.
C11_ProbesInOrderFirstMatchWins ==
  /\ \A c \in Started("probe") :
       /\ c.url = CandidateUrl(c.n)
       /\ Started("probe") = {c}
       /\ c.n = IF ev.in.kind = "request" THEN 1 ELSE ev.in.n + 1
       /\ ev.in.kind = "probe" => ProbeGaveNothing
  /\ (ProbeGaveNothing /\ ev.in.n < 3) =>
       /\ Started("probe") # {} /\ Started("token") = {}
       /\ ~Answered /\ ev.auth.kind = "none"
  /\ ev.in.kind = "probe" => up /\ rq[ev.req].pc # "hung"
  /\ ProbeGaveCookie =>
       /\ Started("probe") = {}
       /\ Started("token") # {}
       /\ \A c \in Started("token") : c.cookie = ev.in.setCookie
       /\ rq[ev.req].nProbe = ev.in.n
  /\ (ProbeGaveNothing /\ ev.in.n = 3) => SessionGaveNothing /\ Started("probe") = {}
  /\ SessionGaveNothing => ProbeGaveNothing /\ ev.in.n = 3

\* C11 witness: the first probe failed, the second carries the cookie and the
\* token POST goes out with it, the third candidate not probed.
C11_Witness ==
  /\ ProbeGaveCookie /\ ev.in.n = 2
  /\ rq[ev.req].nProbe = 2
  /\ \E c \in Started("token") : c.cookie = Cookie("PHPSESSID", SidVal(ev.req, 2))

\* C11 second witness: all three probes gave nothing and there is no
\* configured cookie.
C11_WitnessNoCookie ==
  /\ ProbeGaveNothing /\ ev.in.n = 3 /\ ev.in.threw
  /\ ev.resp.status = 502

\* The last step took in an answer to the token POST that getToken turned
\* into a failure.
TokenExchangeFailed == ev.in.kind = "token" /\ ~ev.in.threw /\ ~ev.tok.ok

\* C12: a failure of the token exchange comes out of authCycle with the
\* status and the raw getToken gave it, and the route answers with that
\* status and that raw and makes no further call; when the token endpoint
\* answered with a status outside 200..299, that status is the status of the
\* auth result and of the response of the proxy, on every route.
C12_TokenFailurePropagated ==
  /\ TokenExchangeFailed =>
       /\ ev.auth.kind = "fail"
       /\ ev.auth.status = ev.tok.status /\ ev.auth.raw = ev.tok.raw
       /\ ev.resp.shape = "authFailure"
       /\ ev.resp.status = ev.tok.status /\ ev.resp.raw = ev.tok.raw
       /\ ev.calls = {}
  /\ (ev.in.kind = "token" /\ ~ev.in.threw /\ ev.in.status \notin 200..299) =>
       /\ ev.auth.kind = "fail" /\ ev.auth.status = ev.in.status
       /\ ev.auth.raw.body = ev.in.tbody
       /\ ev.resp.status = ev.in.status
       /\ rq[ev.req].pc = "done"

\* C12 witness: the token endpoint answers 503 to a request of
\* /gesprov/faturas, which is answered 503.
C12_Witness ==
  /\ TokenExchangeFailed /\ ev.in.status = 503 /\ ev.in.route = "faturas"
  /\ ev.resp.status = 503

\* The token endpoint answered 2xx with a body without error marker.
TokenAnswerUnmarked ==
  /\ ev.in.kind = "token" /\ ~ev.in.threw
  /\ ev.in.status \in 200..299
  /\ ~(ev.in.tbody.json /\ ev.in.tbody.erro # "")

\* The body of the answer has none of the three token fields.
NoTokenField ==
  \/ ~ev.in.tbody.json
  \/ ev.in.tbody.dat = "" /\ ev.in.tbody.top = "" /\ ev.in.tbody.acesso = ""

\* C13: on a 2xx answer without error marker, getToken fails with status
\* 502 when the body is not JSON or has none of data.access_token,
\* access_token and token_acesso; otherwise it succeeds with the first of
\* the three that is present, in this order, and with data.token_type, else
\* token_type, else Bearer as the token type.
C13_TokenFieldFallback ==
  /\ (TokenAnswerUnmarked /\ NoTokenField) =>
       ~ev.tok.ok /\ ev.tok.status = 502 /\ ev.tok.access_token = ""
  /\ (TokenAnswerUnmarked /\ ~NoTokenField) =>
       /\ ev.tok.ok
       /\ ev.tok.access_token =
            IF ev.in.tbody.dat # "" THEN ev.in.tbody.dat
            ELSE IF ev.in.tbody.top # "" THEN ev.in.tbody.top
            ELSE ev.in.tbody.acesso
       /\ ev.tok.token_type =
            IF ev.in.tbody.ttd # "" THEN ev.in.tbody.ttd
            ELSE IF ev.in.tbody.tt # "" THEN ev.in.tbody.tt
            ELSE "Bearer"

\* C13 witness: data.access_token is absent, access_token and token_acesso
\* are present and there is no token type: access_token wins, as Bearer.
C13_Witness ==
  /\ TokenAnswerUnmarked
  /\ ev.in.tbody.dat = "" /\ ev.in.tbody.top = "B" /\ ev.in.tbody.acesso = "C"
  /\ ev.in.tbody.ttd = "" /\ ev.in.tbody.tt = ""
  /\ ev.tok.ok /\ ev.tok.access_token = "B" /\ ev.tok.token_type = "Bearer"

\* C13 second witness: a 2xx answer that is not JSON fails with 502.
C13_WitnessNonJson ==
  TokenAnswerUnmarked /\ ~ev.in.tbody.json /\ ~ev.tok.ok /\ ev.tok.status = 502

\* The last step took in an answer to the business POST whose payload has
\* the error marker.
BusinessErro ==
  /\ ev.in.kind = "business" /\ ~ev.in.threw
  /\ ev.in.bbody.json /\ ev.in.bbody.erro # ""

\* C14: on both business routes an upstream payload with the erro marker,
\* whatever the upstream status, is answered 401 when erro is
\* usuario_invalido and 400 otherwise, the body being the upstream payload.
C14_ErroPayloadForwarded ==
  BusinessErro =>
    /\ ev.in.route \in {"cliente", "faturas"}
    /\ ev.resp.status = IF ev.in.bbody.erro = "usuario_invalido" THEN 401 ELSE 400
    /\ ev.resp.json /\ ev.resp.errField = "erro"
    /\ ev.resp.payload = ev.in.bbody
    /\ rq[ev.req].pc = "done" /\ rq[ev.req].nResp = 1

\* C14 witness: /gesprov/faturas gets usuario_invalido in an upstream answer
\* of status 200 and answers 401.
C14_Witness ==
  /\ BusinessErro /\ ev.in.route = "faturas" /\ ev.in.status = 200
  /\ ev.in.bbody.erro = "usuario_invalido" /\ ev.resp.status = 401

\* C14 second witness: /gesprov/cliente gets another marker in an upstream
\* answer of status 503 and answers 400.
C14_WitnessOther ==
  /\ BusinessErro /\ ev.in.route = "cliente" /\ ev.in.status = 503
  /\ ev.in.bbody.erro = "sem_cadastro" /\ ev.resp.status = 400

\* The last step took in an answer to the business POST of a status outside
\* 200..299 whose payload has no error marker.
BusinessTransportFailure ==
  /\ ev.in.kind = "business" /\ ~ev.in.threw
  /\ ev.in.status \notin 200..299
  /\ ~(ev.in.bbody.json /\ ev.in.bbody.erro # "")

\* C15: a business POST answered with a status s outside 200..299 and no
\* error marker gets the response status s on /gesprov/faturas and 502 on
\* /gesprov/cliente, the body being an error object in both.
C15_TransportStatusPerRoute ==
  BusinessTransportFailure =>
    /\ ev.in.route = "faturas" => ev.resp.status = ev.in.status
    /\ ev.in.route = "cliente" => ev.resp.status = 502
    /\ ev.in.route \in {"cliente", "faturas"}
    /\ ev.resp.json /\ ev.resp.errField = "error"
    /\ rq[ev.req].pc = "done"

\* C15 witness: /gesprov/faturas gets 404 upstream and answers 404.
C15_Witness ==
  /\ BusinessTransportFailure /\ ev.in.route = "faturas" /\ ev.in.status = 404
  /\ ev.resp.status = 404

\* C15 second witness: /gesprov/cliente gets 404 upstream and answers 502.
C15_WitnessCliente ==
  /\ BusinessTransportFailure /\ ev.in.route = "cliente" /\ ev.in.status = 404
  /\ ev.resp.status = 502

\* The last step took in a network failure of the token POST or of the
\* business POST of a request of /gesprov/faturas: fetch threw inside the
\* try block of the route.
FaturasThrew ==
  /\ ev.in.threw /\ ev.in.kind \in {"token", "business"}
  /\ ev.in.route = "faturas"

\* C16: an exception raised in the handler of /gesprov/faturas after the key
\* check, such as a network failure of the token POST or of the business
\* POST, is caught: the request is answered 500 with the generic error
\* object, which carries nothing of the upstream, and the process stays up;
\* a failed probe of such a request raises nothing.
C16_FaturasCatchesExceptions ==
  /\ FaturasThrew =>
       /\ up
       /\ ev.resp.status = 500 /\ ev.resp.shape = "faturasCaught"
       /\ ev.resp.json /\ ev.resp.errField = "error" /\ ev.resp.rawLen = 0
       /\ rq[ev.req].pc = "done" /\ rq[ev.req].nResp = 1
       /\ ev.calls = {}
  /\ (ev.in.threw /\ ev.in.kind = "probe" /\ ev.in.route = "faturas") =>
       up /\ rq[ev.req].pc \in {"openSession", "getToken", "done"}

\* C16 witness: the business POST of /gesprov/faturas fails on the network
\* and the request is answered 500.
C16_Witness ==
  FaturasThrew /\ ev.in.kind = "business" /\ ev.resp.status = 500 /\ up

\* C16 second witness: the token POST of /gesprov/faturas fails on the network.
C16_WitnessToken ==
  FaturasThrew /\ ev.in.kind = "token" /\ ev.resp.status = 500 /\ up

\* The last step took in a failure of the auth cycle or of the business
\* call: a failure authCycle returned, an upstream answer with the error
\* marker or a status outside 200..299, or a fetch that threw.
UpstreamFailure ==
  \/ ev.auth.kind = "fail"
  \/ BusinessErro
  \/ BusinessTransportFailure
  \/ ev.in.threw /\ ev.in.kind \in {"token", "business"}

\* The last step sent a JSON response that has an error or an erro field.
AnsweredJsonError ==
  Answered /\ ev.resp.json /\ ev.resp.errField \in {"error", "erro"}

\* C17: every failure of the auth cycle or of the business call, a network
\* failure thrown by the token POST or the business POST included, is
\* answered on every route with a JSON response that has an error or an erro
\* field.
C17_EveryFailureAnsweredAsJsonError == UpstreamFailure => AnsweredJsonError

\* What holds instead: the failures that are returned, not thrown, are
\* answered so on every route, and the thrown ones on /gesprov/faturas.
C17_ReturnedFailuresAnswered ==
  (UpstreamFailure /\ (ev.in.threw => ev.in.route = "faturas")) => AnsweredJsonError

\* C18: every response to a failure of the token exchange or of the
\* business call carries at most 1200 characters of upstream content in its
\* raw or details field.
C18_DiagnosticsTruncated ==
  (UpstreamFailure /\ Answered) => ev.resp.rawLen <= MaxRaw

\* What holds instead: the cut is made where the upstream text is not JSON
\* and the failure is one of the business call.
C18_BusinessTextTruncated ==
  (BusinessTransportFailure /\ ~ev.in.bbody.json) =>
    ev.resp.rawLen <= MaxRaw /\ (ev.in.bbody.len <= MaxRawV1 => ev.resp.rawLen = ev.in.bbody.len)

IsDigit(ch) == ch \in Digits

\* C19: the cpf_cnpj of a business POST is the subsequence of the decimal
\* digits of the cpf_cnpj of the request, in their order, and normalizing it
\* again leaves it as it is.
C19_CpfIsDigitSubsequence ==
  \A r \in Reqs : \A c \in InFlight(r, "business") :
    /\ c.body.cpf_cnpj = SelectSeq(rq[r].cpf.s, IsDigit)
    /\ OnlyDigits(c.body.cpf_cnpj) = c.body.cpf_cnpj
    /\ \A i \in 1..Len(c.body.cpf_cnpj) : c.body.cpf_cnpj[i] \in Digits

\* C19 witness: cpf_cnpj 1.9 goes upstream as 19.
C19_Witness ==
  \E c \in Started("business") :
    /\ ev.in.cpf.s = <<"1", ".", "9">>
    /\ c.body.cpf_cnpj = <<"1", "9">>

\* C20: a request gets at most one response; the step that sends it starts
\* no outbound call, and from then on the request is over, with no call of
\* its own in flight, so that no second response and no further call follow.
C20_AtMostOneResponse ==
  /\ \A r \in Reqs :
       /\ rq[r].nResp <= 1
       /\ rq[r].nResp = 1 <=> rq[r].pc = "done"
       /\ rq[r].pc \in {"done", "hung"} => rq[r].inflight = {}
  /\ Answered => ev.calls = {} /\ rq[ev.req].nResp = 1
  /\ ev.calls # {} => rq[ev.req].nResp = 0

\* C20 witness: one request has its response after a business call, and the
\* other has been answered as well.
C20_Witness ==
  /\ Answered /\ ev.in.kind = "business"
  /\ \A r \in Reqs : rq[r].nResp = 1 /\ rq[r].pc = "done"

============================================================================
